---- MODULE Spec2Model ----
(***************************************************************************)
(* Vehicle registry, cache fill, matching and reviews of the DeltaDrive     *)
(* backend: VehicleService (src/src/model/vehicle/vehicle.service.ts) and  *)
(* ReviewService (src/src/model/review/review.service.ts).                 *)
(*                                                                         *)
(* Records are values: a Vehicle handed to or returned by a call is the    *)
(* record's content at that moment.  Every await of the service is a step  *)
(* boundary: the storage executes a query issued by one call at any later  *)
(* moment, and the call resumes in a step of its own when its continuation *)
(* changes state.                                                          *)
(***************************************************************************)
EXTENDS Integers, Sequences, FiniteSets, TLC

VARIABLES
  storage,      \* vehicleModel: uuid -> <<>> (no document) or <<Vehicle>>
  cacheLoaded,  \* CacheService: has the cache been populated
  cacheEntries, \* CacheService: uuid -> <<>> or <<Vehicle>>
  reviews,      \* reviewModel: the sequence of Review documents
  calls,        \* the calls made so far, in the order they started, with their locals
  fetches,      \* number of vehicleModel.find() queries the storage has executed
  filled,       \* has some getAllVehicles() call completed
  active,       \* vehicles whose book() completed and whose finishRide() was not called since
  req,          \* the arguments of one findClosestVehicles call on its own
  offers,       \* <<>> before that call returns, <<result>> after
  listing       \* <<result>> of getAllReviews when it was the last call made, else <<>>

vars == <<storage, cacheLoaded, cacheEntries, reviews, calls,
          fetches, filled, active, req, offers, listing>>

registryVars == <<storage, cacheLoaded, cacheEntries, calls, fetches, filled, active>>

(***************************************************************************)
(* Bounds                                                                  *)
(***************************************************************************)
MaxLen == 2      \* longest candidate list given to findClosestVehicles on its own
MaxCount == 2    \* largest count asked for
MaxDist == 1     \* largest distanceToDestination
MaxCalls == 4    \* calls started in one behaviour of the registry
MaxInFlight == 2 \* calls in flight at once
MaxReviews == 3  \* documents in the review store

(***************************************************************************)
(* Data                                                                    *)
(***************************************************************************)
Uuids == {"v1", "v2", "v3"}

Position(lat, lon) == [latitude |-> lat, longitude |-> lon]

Positions == {Position(0, 0), Position(0, 1), Position(1, 1)}

\* pricePerKM and startPrice never change in this code: fixed per vehicle.
PricePerKM(uuid) == CASE uuid = "v1" -> 2 [] uuid = "v2" -> 3 [] OTHER -> 1

StartPrice(uuid) == CASE uuid = "v1" -> 5 [] uuid = "v2" -> 0 [] OTHER -> 4

MkVehicle(uuid, pos, booked) ==
  [uuid |-> uuid, latitude |-> pos.latitude, longitude |-> pos.longitude,
   pricePerKM |-> PricePerKM(uuid), startPrice |-> StartPrice(uuid),
   booked |-> booked]

VehiclesOf(uuid) == {MkVehicle(uuid, p, b) : p \in Positions, b \in BOOLEAN}

\* A Review document; rate and comment are optional: <<>> when absent.
MkReview(uuid, email, vehicleId, completed, rate) ==
  [uuid |-> uuid, email |-> email, vehicleId |-> vehicleId, price |-> 10,
   completed |-> completed, rate |-> rate,
   comment |-> IF rate = <<>> THEN <<>> ELSE <<"ok">>]

\* The review stores a behaviour starts from.
ReviewStores ==
  { <<>>,
    << MkReview("r1", "a@x", "v1", TRUE, <<4>>),
       MkReview("r2", "b@x", "v1", TRUE, <<5>>) >>,
    << MkReview("r1", "a@x", "v1", FALSE, <<>>) >>,
    << MkReview("r1", "a@x", "v1", TRUE, <<3>>),
       MkReview("r2", "b@x", "v2", TRUE, <<4>>),
       MkReview("r3", "a@x", "v2", FALSE, <<>>) >> }

(***************************************************************************)
(* JavaScript numbers of the rating computation: NaN or a fraction.        *)
(***************************************************************************)
NaN == [nan |-> TRUE, num |-> 0, den |-> 1]

Num(n) == [nan |-> FALSE, num |-> n, den |-> 1]

\* score += review.rate : adding undefined gives NaN, and NaN stays NaN
JsAddRate(score, rate) ==
  IF score.nan \/ rate = <<>> THEN NaN ELSE Num(score.num + rate[1])

\* score / reviews.length, with length > 0
JsDiv(score, n) ==
  IF score.nan THEN NaN ELSE [nan |-> FALSE, num |-> score.num, den |-> n]

\* a === b on numbers: NaN equals nothing
NumEq(a, b) == ~a.nan /\ ~b.nan /\ a.num * b.den = b.num * a.den

(***************************************************************************)
(* Collaborators                                                           *)
(***************************************************************************)
Abs(x) == IF x < 0 THEN -x ELSE x

\* PositionService.calculateDistance(a, b)
CalculateDistance(a, b) ==
  Abs(a.latitude - b.latitude) + Abs(a.longitude - b.longitude)

\* ReviewService.getVehicleReviews(vehicleId): the reviews of the vehicle
GetVehicleReviews(store, vehicleId) ==
  SelectSeq(store, LAMBDA r : r.vehicleId = vehicleId)

(***************************************************************************)
(* findClosestVehicles                                                     *)
(***************************************************************************)
\* vehicles.map(vehicle => ({vehicle, distance}))
VehicleDistances(userPosition, vehicles) ==
  [i \in 1..Len(vehicles) |->
     [vehicle |-> vehicles[i],
      distance |-> CalculateDistance(userPosition, vehicles[i])]]

\* x placed after every element that does not compare greater (stable)
RECURSIVE InsertByDistance(_, _)
InsertByDistance(x, s) ==
  IF s = <<>> THEN <<x>>
  ELSE IF s[Len(s)].distance - x.distance <= 0
       THEN Append(s, x)
       ELSE Append(InsertByDistance(x, SubSeq(s, 1, Len(s) - 1)), s[Len(s)])

RECURSIVE SortPrefix(_, _)
SortPrefix(s, n) ==
  IF n = 0 THEN <<>> ELSE InsertByDistance(s[n], SortPrefix(s, n - 1))

SortByDistance_Unsorted(s) == s

\* vehicleDistances.sort((a, b) => a.distance - b.distance)
SortByDistance(s) == SortPrefix(s, Len(s))

IsBooked_Never(vehicle) == FALSE

\* if (vehicleDistance.vehicle.booked) continue
IsBooked(vehicle) == vehicle.booked

RECURSIVE SumRates(_, _)
SumRates(rs, n) ==
  IF n = 0 THEN Num(0) ELSE JsAddRate(SumRates(rs, n - 1), rs[n].rate)

\* let score = 0; for (review of reviews) score += review.rate
Score(rs) == SumRates(rs, Len(rs))

\* let averageRating = 0; if (reviews.length > 0) averageRating = score / reviews.length
AverageRating(rs) == IF Len(rs) > 0 THEN JsDiv(Score(rs), Len(rs)) ELSE Num(0)

Price_NoStart(distanceToDestination, vehicle) ==
  distanceToDestination * vehicle.pricePerKM

\* distanceToDestination * vehicle.pricePerKM + vehicle.startPrice
Price(distanceToDestination, vehicle) ==
  distanceToDestination * vehicle.pricePerKM + vehicle.startPrice

MkOffer(vd, distanceToDestination, store) ==
  LET rs == GetVehicleReviews(store, vd.vehicle.uuid)
  IN  [vehicle |-> vd.vehicle,
       distanceToDriver |-> vd.distance,
       price |-> Price(distanceToDestination, vd.vehicle),
       reviews |-> rs,
       averageRating |-> AverageRating(rs)]

\* the for loop over the sorted vehicleDistances, from index i on
RECURSIVE ClosestLoop(_, _, _, _, _, _)
ClosestLoop(sorted, i, closest, count, distanceToDestination, store) ==
  IF i > Len(sorted) THEN closest
  ELSE IF IsBooked(sorted[i].vehicle)
       THEN ClosestLoop(sorted, i + 1, closest, count, distanceToDestination, store)
       ELSE LET pushed == Append(closest,
                                 MkOffer(sorted[i], distanceToDestination, store))
            IN  IF Len(pushed) = count
                THEN pushed
                ELSE ClosestLoop(sorted, i + 1, pushed, count,
                                 distanceToDestination, store)

FindClosestVehicles(userPosition, vehicles, count, distanceToDestination, store) ==
  ClosestLoop(SortByDistance(VehicleDistances(userPosition, vehicles)),
              1, <<>>, count, distanceToDestination, store)

(***************************************************************************)
(* One findClosestVehicles call on its own, over every bounded input       *)
(***************************************************************************)
\* sequences of at most n vehicles with distinct uuids
RECURSIVE CandidateLists(_)
CandidateLists(n) ==
  IF n = 0 THEN {<<>>}
  ELSE LET shorter == CandidateLists(n - 1)
       IN  shorter \cup
           { Append(s, v) : s \in {t \in shorter : Len(t) = n - 1},
                            v \in UNION {VehiclesOf(u) : u \in Uuids} }

DistinctUuids(s) == \A i, j \in 1..Len(s) : i # j => s[i].uuid # s[j].uuid

MatchRequests ==
  [userPosition : {Position(0, 0), Position(1, 1)},
   vehicles : {s \in CandidateLists(MaxLen) : DistinctUuids(s)},
   count : 0..MaxCount,
   distanceToDestination : 0..MaxDist]

NoEntries == [u \in Uuids |-> <<>>]

InitMatch ==
  /\ req \in MatchRequests
  /\ reviews \in ReviewStores
  /\ offers = <<>>
  /\ storage = NoEntries
  /\ cacheLoaded = FALSE
  /\ cacheEntries = NoEntries
  /\ calls = <<>>
  /\ fetches = 0
  /\ filled = FALSE
  /\ active = {}
  /\ listing = <<>>

MatchCall ==
  /\ offers = <<>>
  /\ offers' = << FindClosestVehicles(req.userPosition, req.vehicles, req.count,
                                      req.distanceToDestination, reviews) >>
  /\ UNCHANGED <<req, reviews, listing, registryVars>>

NextMatch == MatchCall

SpecMatch == InitMatch /\ [][NextMatch]_vars

(***************************************************************************)
(* CacheService: a mapping uuid -> Vehicle with a never-loaded state       *)
(***************************************************************************)
UuidOrder == <<"v1", "v2", "v3">>

\* the entries present among es, in uuid order
RECURSIVE Present(_, _)
Present(es, n) ==
  IF n = 0 THEN <<>> ELSE Present(es, n - 1) \o es[UuidOrder[n]]

\* isEmpty(): true iff the cache has never been populated
CacheIsEmpty == ~cacheLoaded

\* getAll(): the current loaded set
CacheGetAll == Present(cacheEntries, Len(UuidOrder))

\* get(id): the record, or <<>> for not-found
CacheGet(uuid) == cacheEntries[uuid]

\* set(vehicle): upsert of one record
CacheSet(vehicle) == [cacheEntries EXCEPT ![vehicle.uuid] = <<vehicle>>]

\* addAll(vehicles): the entries after the bulk load (the state becomes loaded)
CacheAddAll(vehicles) ==
  [u \in Uuids |->
     IF \E i \in 1..Len(vehicles) : vehicles[i].uuid = u
     THEN <<vehicles[CHOOSE i \in 1..Len(vehicles) : vehicles[i].uuid = u]>>
     ELSE cacheEntries[u]]

(***************************************************************************)
(* VehicleService over the cache and the storage, calls interleaving at    *)
(* their awaits                                                            *)
(***************************************************************************)
\* the fleets in storage the registry starts from
Fleets ==
  { NoEntries,
    [NoEntries EXCEPT !["v1"] = <<MkVehicle("v1", Position(0, 0), FALSE)>>] }

\* the fleets in storage the dispatch of rides starts from
DispatchFleets ==
  { [NoEntries EXCEPT !["v1"] = <<MkVehicle("v1", Position(0, 0), FALSE)>>],
    [NoEntries EXCEPT !["v1"] = <<MkVehicle("v1", Position(0, 1), FALSE)>>,
                      !["v2"] = <<MkVehicle("v2", Position(0, 0), FALSE)>>] }

NewLocations == {Position(1, 1)}

\* the uuids callers ask for
FleetUuids == {"v1", "v2"}

\* a call: pc is where it stands; input, loc and written are book's and
\* finishRide's vehicle argument, newLocation and the record they write;
\* vehicles is getAllVehicles' local; ack is the storage's answer to the
\* update; status and result are how and with what the call ended; fromCache
\* tells that it ended without a storage read; offers is findClosestVehicles'
\* result; for book, fromCache tells that the cache was loaded when it was
\* called; fresh is the part of active at the call's start that no finishRide
\* call touched since.
NewCall(op) ==
  [op |-> op, pc |-> "done", uuid |-> "", input |-> <<>>, loc |-> <<>>,
   written |-> <<>>, vehicles |-> <<>>, ack |-> "", status |-> "ok",
   result |-> <<>>, fromCache |-> FALSE, offers |-> <<>>, fresh |-> {}]

CanCall ==
  /\ Len(calls) < MaxCalls
  /\ Cardinality({i \in 1..Len(calls) : calls[i].pc # "done"}) < MaxInFlight

InFlight(i, at) == i \in 1..Len(calls) /\ calls[i].pc = at

\* the record of a vehicle a caller holds when it calls book or finishRide:
\* what getVehicle(uuid) hands out at that moment
Handed(uuid) ==
  LET r == IF CacheIsEmpty THEN storage[uuid] ELSE CacheGet(uuid)
  IN  {r[i] : i \in 1..Len(r)}

\* vehicleModel.find(): every document, in uuid order
StorageFindAll == Present(storage, Len(UuidOrder))

GetAllVehiclesCall_AlwaysFetch ==
  /\ CanCall
  /\ calls' = Append(calls, [NewCall("getAllVehicles") EXCEPT
                               !.pc = "find", !.status = "", !.fresh = active])
  /\ UNCHANGED <<storage, cacheLoaded, cacheEntries, fetches, filled, active>>

\* a getAllVehicles that takes a cache holding any entry for a loaded one
GetAllVehiclesCall_AnyEntry ==
  /\ CanCall
  /\ IF CacheGetAll = <<>>
     THEN /\ calls' = Append(calls, [NewCall("getAllVehicles") EXCEPT
                                       !.pc = "find", !.status = "", !.fresh = active])
          /\ UNCHANGED filled
     ELSE /\ calls' = Append(calls, [NewCall("getAllVehicles") EXCEPT
                                       !.result = CacheGetAll, !.fromCache = TRUE,
                                       !.fresh = active])
          /\ filled' = TRUE
  /\ UNCHANGED <<storage, cacheLoaded, cacheEntries, fetches, active>>

\* getAllVehicles() up to its await, or to its return when the cache is loaded
GetAllVehiclesCall ==
  /\ CanCall
  /\ IF CacheIsEmpty
     THEN /\ calls' = Append(calls, [NewCall("getAllVehicles") EXCEPT
                                       !.pc = "find", !.status = "", !.fresh = active])
          /\ UNCHANGED filled
     ELSE /\ calls' = Append(calls, [NewCall("getAllVehicles") EXCEPT
                                       !.result = CacheGetAll, !.fromCache = TRUE,
                                       !.fresh = active])
          /\ filled' = TRUE
  /\ UNCHANGED <<storage, cacheLoaded, cacheEntries, fetches, active>>

\* the storage executes the find() of call i
StorageFind(i) ==
  /\ InFlight(i, "find")
  /\ calls' = [calls EXCEPT ![i].pc = "fill", ![i].vehicles = StorageFindAll]
  /\ fetches' = fetches + 1
  /\ UNCHANGED <<storage, cacheLoaded, cacheEntries, filled, active>>

\* getAllVehicles() after its await: addAll(vehicles); return vehicles
GetAllVehiclesResume(i) ==
  /\ InFlight(i, "fill")
  /\ cacheEntries' = CacheAddAll(calls[i].vehicles)
  /\ cacheLoaded' = TRUE
  /\ calls' = [calls EXCEPT ![i].pc = "done", ![i].status = "ok",
                            ![i].result = calls[i].vehicles, ![i].vehicles = <<>>]
  /\ filled' = TRUE
  /\ UNCHANGED <<storage, fetches, active>>

\* getVehicle(uuid) up to its await, or to its return when the cache is loaded
GetVehicleCall(uuid) ==
  /\ CanCall
  /\ IF CacheIsEmpty
     THEN calls' = Append(calls, [NewCall("getVehicle") EXCEPT
                                    !.pc = "findOne", !.status = "", !.uuid = uuid,
                                    !.fresh = active])
     ELSE calls' = Append(calls, [NewCall("getVehicle") EXCEPT
                                    !.uuid = uuid, !.result = CacheGet(uuid),
                                    !.fromCache = TRUE, !.fresh = active])
  /\ UNCHANGED <<storage, cacheLoaded, cacheEntries, fetches, filled, active>>

\* a getVehicle that keeps the record it read in the cache
StorageFindOne_Caches(i) ==
  /\ InFlight(i, "findOne")
  /\ calls' = [calls EXCEPT ![i].pc = "done", ![i].status = "ok",
                            ![i].result = storage[calls[i].uuid]]
  /\ cacheEntries' = [cacheEntries EXCEPT ![calls[i].uuid] = storage[calls[i].uuid]]
  /\ UNCHANGED <<storage, cacheLoaded, fetches, filled, active>>

\* the storage executes the findOne({uuid}) of call i, which returns its answer
StorageFindOne(i) ==
  /\ InFlight(i, "findOne")
  /\ calls' = [calls EXCEPT ![i].pc = "done", ![i].status = "ok",
                            ![i].result = storage[calls[i].uuid]]
  /\ UNCHANGED <<storage, cacheLoaded, cacheEntries, fetches, filled, active>>

\* a book that issues the storage update and leaves the cache for later
BookCall_StorageFirst(vehicle) ==
  /\ CanCall
  /\ LET v == [vehicle EXCEPT !.booked = TRUE]
     IN  calls' = Append(calls, [NewCall("book") EXCEPT
                                  !.pc = "update", !.status = "",
                                  !.fromCache = ~CacheIsEmpty,
                                  !.uuid = vehicle.uuid,
                                  !.input = <<vehicle>>, !.written = <<v>>])
  /\ UNCHANGED <<storage, cacheLoaded, cacheEntries, fetches, filled, active>>

\* book(vehicle) up to its await: booked = true; cache set; updateOne issued
BookCall(vehicle) ==
  /\ CanCall
  /\ LET v == [vehicle EXCEPT !.booked = TRUE]
     IN  /\ cacheEntries' = CacheSet(v)
         /\ calls' = Append(calls, [NewCall("book") EXCEPT
                                      !.pc = "update", !.status = "",
                                      !.fromCache = ~CacheIsEmpty,
                                      !.uuid = vehicle.uuid,
                                      !.input = <<vehicle>>, !.written = <<v>>])
  /\ UNCHANGED <<storage, cacheLoaded, fetches, filled, active>>

\* a finishRide that does not release the vehicle
FinishRideCall_KeepsBooked(vehicle, newLocation) ==
  /\ CanCall
  /\ LET v == [vehicle EXCEPT !.longitude = newLocation.longitude,
                              !.latitude = newLocation.latitude]
     IN  /\ cacheEntries' = CacheSet(v)
         /\ calls' = Append([i \in 1..Len(calls) |->
                               [calls[i] EXCEPT !.fresh = @ \ {vehicle.uuid}]],
                            [NewCall("finishRide") EXCEPT
                               !.pc = "update", !.status = "",
                               !.uuid = vehicle.uuid, !.input = <<vehicle>>,
                               !.loc = <<newLocation>>, !.written = <<v>>])
  /\ active' = active \ {vehicle.uuid}
  /\ UNCHANGED <<storage, cacheLoaded, fetches, filled>>

\* finishRide(vehicle, newLocation) up to its await
FinishRideCall(vehicle, newLocation) ==
  /\ CanCall
  /\ LET v == [vehicle EXCEPT !.longitude = newLocation.longitude,
                              !.latitude = newLocation.latitude,
                              !.booked = FALSE]
     IN  /\ cacheEntries' = CacheSet(v)
         /\ calls' = Append([i \in 1..Len(calls) |->
                               [calls[i] EXCEPT !.fresh = @ \ {vehicle.uuid}]],
                            [NewCall("finishRide") EXCEPT
                               !.pc = "update", !.status = "",
                               !.uuid = vehicle.uuid, !.input = <<vehicle>>,
                               !.loc = <<newLocation>>, !.written = <<v>>])
  /\ active' = active \ {vehicle.uuid}
  /\ UNCHANGED <<storage, cacheLoaded, fetches, filled>>

\* was a finishRide of call i's vehicle called after call i, or is one in flight
Finishing(i) ==
  \E j \in 1..Len(calls) :
    /\ calls[j].op = "finishRide"
    /\ calls[j].uuid = calls[i].uuid
    /\ (j > i \/ calls[j].pc # "done")

\* active once book, call i, has completed
Booked(i) ==
  IF calls[i].op = "book" /\ ~Finishing(i)
  THEN active \cup {calls[i].uuid} ELSE active

\* the storage executes the updateOne({uuid}, vehicle) of call i, and book or
\* finishRide returns after its await
UpdateAcknowledged(i) ==
  /\ InFlight(i, "update")
  /\ storage' = IF storage[calls[i].uuid] = <<>>
                THEN storage
                ELSE [storage EXCEPT ![calls[i].uuid] = calls[i].written]
  /\ calls' = [calls EXCEPT ![i].pc = "done", ![i].ack = "ok", ![i].status = "ok"]
  /\ active' = Booked(i)
  /\ UNCHANGED <<cacheLoaded, cacheEntries, fetches, filled>>

\* a rejected update undone in the cache
UpdateRejected_RollBack(i) ==
  /\ InFlight(i, "update")
  /\ calls' = [calls EXCEPT ![i].pc = "done", ![i].ack = "rejected",
                            ![i].status = "error"]
  /\ cacheEntries' = [cacheEntries EXCEPT ![calls[i].uuid] = calls[i].input]
  /\ UNCHANGED <<storage, cacheLoaded, fetches, filled, active>>

\* the storage rejects the updateOne of call i or cannot be reached, and the
\* await of book or finishRide throws to the caller: nothing else is done
UpdateRejected(i) ==
  /\ InFlight(i, "update")
  /\ calls' = [calls EXCEPT ![i].pc = "done", ![i].ack = "rejected",
                            ![i].status = "error"]
  /\ UNCHANGED <<storage, cacheLoaded, cacheEntries, fetches, filled, active>>

\* the vehicles of the sorted pairs
SortedVehicles(userPosition, vehicles) ==
  LET sorted == SortByDistance(VehicleDistances(userPosition, vehicles))
  IN  [i \in 1..Len(sorted) |-> sorted[i].vehicle]

\* a findClosestVehicles that sorts the array it was given
FindClosestVehiclesCall_SortsInPlace(j, count) ==
  /\ CanCall
  /\ j \in 1..Len(calls)
  /\ calls[j].op = "getAllVehicles" /\ calls[j].pc = "done"
  /\ calls' = Append([calls EXCEPT
                        ![j].result = SortedVehicles(Position(0, 0), calls[j].result)],
                     [NewCall("findClosestVehicles") EXCEPT
                        !.fresh = calls[j].fresh,
                        !.vehicles = calls[j].result,
                        !.offers = FindClosestVehicles(Position(0, 0),
                                     calls[j].result, count, MaxDist, reviews)])
  /\ UNCHANGED <<storage, cacheLoaded, cacheEntries, fetches, filled, active>>

\* findClosestVehicles over the fleet that getAllVehicles call j returned
FindClosestVehiclesCall(j, count) ==
  /\ CanCall
  /\ j \in 1..Len(calls)
  /\ calls[j].op = "getAllVehicles" /\ calls[j].pc = "done"
  /\ calls' = Append(calls, [NewCall("findClosestVehicles") EXCEPT
                               !.fresh = calls[j].fresh,
                               !.vehicles = calls[j].result,
                               !.offers = FindClosestVehicles(Position(0, 0),
                                            calls[j].result, count, MaxDist, reviews)])
  /\ UNCHANGED <<storage, cacheLoaded, cacheEntries, fetches, filled, active>>

InitFrom(fleets) ==
  /\ storage \in fleets
  /\ cacheLoaded = FALSE
  /\ cacheEntries = NoEntries
  /\ reviews = <<>>
  /\ calls = <<>>
  /\ fetches = 0
  /\ filled = FALSE
  /\ active = {}
  /\ req = <<>>
  /\ offers = <<>>
  /\ listing = <<>>

Init == InitFrom(Fleets)

InitDispatch == InitFrom(DispatchFleets)

Others == UNCHANGED <<reviews, req, offers, listing>>

Next ==
  \/ GetAllVehiclesCall /\ Others
  \/ \E i \in 1..MaxCalls : StorageFind(i) /\ Others
  \/ \E i \in 1..MaxCalls : GetAllVehiclesResume(i) /\ Others
  \/ \E u \in FleetUuids : GetVehicleCall(u) /\ Others
  \/ \E i \in 1..MaxCalls : StorageFindOne(i) /\ Others
  \/ \E u \in FleetUuids : \E v \in Handed(u) : BookCall(v) /\ Others
  \/ \E u \in FleetUuids : \E v \in Handed(u) : \E l \in NewLocations :
       FinishRideCall(v, l) /\ Others
  \/ \E i \in 1..MaxCalls : UpdateAcknowledged(i) /\ Others
  \/ \E i \in 1..MaxCalls : UpdateRejected(i) /\ Others

\* the dispatch of rides: the fleet is read, offers are made from it, vehicles
\* are booked and rides finished
NextDispatch ==
  \/ GetAllVehiclesCall /\ Others
  \/ \E i \in 1..MaxCalls : StorageFind(i) /\ Others
  \/ \E i \in 1..MaxCalls : GetAllVehiclesResume(i) /\ Others
  \/ \E j \in 1..MaxCalls : \E n \in {1, MaxCount} :
       FindClosestVehiclesCall(j, n) /\ Others
  \/ \E u \in FleetUuids : \E v \in Handed(u) : BookCall(v) /\ Others
  \/ \E u \in FleetUuids : \E v \in Handed(u) : \E l \in NewLocations :
       FinishRideCall(v, l) /\ Others
  \/ \E i \in 1..MaxCalls : UpdateAcknowledged(i) /\ Others
  \/ \E i \in 1..MaxCalls : UpdateRejected(i) /\ Others

Spec == Init /\ [][Next]_vars

SpecDispatch == InitDispatch /\ [][NextDispatch]_vars

(***************************************************************************)
(* ReviewService over the review store.  Each method makes one query, which *)
(* the store executes at once; dateOfRide, brand and the owner's names are  *)
(* carried along unread and are left out.                                   *)
(***************************************************************************)
Emails == {"a@x", "b@x"}

Prices == {10}

Rates == {4, 5}

\* guidService.generateGuid(): the n-th identifier handed out, never one
\* handed out before
GenerateGuid(n) == <<"r1", "r2", "r3", "r4", "r5">>[n]

\* insertReviewRequest(email, vehicleId, price)
InsertReviewRequest(email, vehicleId, price) ==
  /\ Len(reviews) < MaxReviews
  /\ LET uuid == GenerateGuid(Len(reviews) + 1)
     IN  reviews' = Append(reviews,
                           [MkReview(uuid, email, vehicleId, FALSE, <<>>)
                              EXCEPT !.price = price])
  /\ listing' = <<>>
  /\ UNCHANGED <<req, offers, registryVars>>

\* get(uuid): findOne({uuid}), <<>> when no document matches
ReviewGet(uuid) ==
  LET found == SelectSeq(reviews, LAMBDA r : r.uuid = uuid)
  IN  IF found = <<>> THEN <<>> ELSE <<found[1]>>

\* the reviews a rider submits: a document as get(uuid) returned it, with the
\* rating and the comment filled in and completed set; and one for a uuid
\* that no document has
Submissions ==
  { [r EXCEPT !.rate = <<n>>, !.comment = <<"ok">>, !.completed = TRUE] :
      r \in {ReviewGet(GenerateGuid(k))[1] : k \in 1..Len(reviews)}, n \in Rates }
  \cup {MkReview("r0", "a@x", "v1", TRUE, <<4>>)}

\* updateOne({uuid}, review): the first document with that uuid gets the
\* fields of review
UpdateOne(store, review) ==
  LET hits == {i \in 1..Len(store) : store[i].uuid = review.uuid}
  IN  [i \in 1..Len(store) |->
         IF i \in hits /\ \A j \in hits : i <= j
         THEN [f \in DOMAIN store[i] |->
                 IF f \in DOMAIN review THEN review[f] ELSE store[i][f]]
         ELSE store[i]]

\* leaveReview(review)
LeaveReview(review) ==
  /\ reviews' = UpdateOne(reviews, review)
  /\ listing' = <<>>
  /\ UNCHANGED <<req, offers, registryVars>>

\* the aggregate without its $match stage
Aggregate_NoMatch(email) ==
  [i \in 1..Len(reviews) |->
     [review |-> reviews[i], vehicle |-> storage[reviews[i].vehicleId]]]

\* aggregate([{$match: {email}}, {$lookup: vehicles by vehicleId as vehicle}])
Aggregate(email) ==
  LET matched == SelectSeq(reviews, LAMBDA r : r.email = email)
  IN  [i \in 1..Len(matched) |->
         [review |-> matched[i], vehicle |-> storage[matched[i].vehicleId]]]

\* the ReviewDto built of one joined review; rate and comment when present
ReviewDtoOf(joined) ==
  LET vehicleData == joined.vehicle
  IN  [uuid |-> joined.review.uuid,
       price |-> joined.review.price,
       vehicle |-> [vehicleId |-> IF vehicleData # <<>> THEN vehicleData[1].uuid
                                  ELSE "Id not found"],
       rate |-> joined.review.rate,
       comment |-> joined.review.comment]

\* the dtos of the joined reviews whose completed flag is flag, in their order
RECURSIVE Distribute(_, _, _)
Distribute(joined, n, flag) ==
  IF n = 0 THEN <<>>
  ELSE IF joined[n].review.completed = flag
       THEN Append(Distribute(joined, n - 1, flag), ReviewDtoOf(joined[n]))
       ELSE Distribute(joined, n - 1, flag)

\* getAllReviews(email)
GetAllReviews(email) ==
  /\ LET joined == Aggregate(email)
     IN  listing' = << [email |-> email,
                        completed |-> Distribute(joined, Len(joined), TRUE),
                        pending |-> Distribute(joined, Len(joined), FALSE)] >>
  /\ UNCHANGED <<reviews, req, offers, registryVars>>

InitReview ==
  /\ reviews \in ReviewStores
  /\ storage \in DispatchFleets
  /\ listing = <<>>
  /\ cacheLoaded = FALSE
  /\ cacheEntries = NoEntries
  /\ calls = <<>>
  /\ fetches = 0
  /\ filled = FALSE
  /\ active = {}
  /\ req = <<>>
  /\ offers = <<>>

NextReview ==
  \/ \E e \in Emails : \E v \in FleetUuids : \E p \in Prices :
       InsertReviewRequest(e, v, p)
  \/ \E r \in Submissions : LeaveReview(r)
  \/ \E e \in Emails : GetAllReviews(e)

SpecReview == InitReview /\ [][NextReview]_vars

(***************************************************************************)
(* Claims about findClosestVehicles on its own (SpecMatch)                 *)
(***************************************************************************)
Returned == offers # <<>>

Result == offers[1]

Unbooked(vehicles) == SelectSeq(vehicles, LAMBDA v : ~v.booked)

Min(a, b) == IF a <= b THEN a ELSE b

\* C1: no offer returned by findClosestVehicles refers to a vehicle whose
\* booked flag is true, whatever the candidates, rider position, count and
\* destination distance.
C1_NoBookedOffer ==
  Returned => \A i \in 1..Len(Result) : ~Result[i].vehicle.booked

\* a call returned offers although a booked candidate was nearer to the rider
\* than a vehicle it offered
C1_Witness ==
  /\ Returned
  /\ Len(Result) >= 1
  /\ \E i \in 1..Len(req.vehicles) :
       /\ req.vehicles[i].booked
       /\ CalculateDistance(req.userPosition, req.vehicles[i])
            < Result[Len(Result)].distanceToDriver

\* C2: the number of offers returned equals min(count, number of candidates
\* with booked = false), for every count >= 0, count = 0 included.
C2_LengthIsMin ==
  Returned => Len(Result) = Min(req.count, Len(Unbooked(req.vehicles)))

\* C7: the offers are in non-decreasing order of distanceToDriver, which is
\* the distance from the rider to the offered vehicle.
C7_SortedByDistance ==
  Returned =>
    /\ \A i \in 1..Len(Result) :
         Result[i].distanceToDriver
           = CalculateDistance(req.userPosition, Result[i].vehicle)
    /\ \A i, j \in 1..Len(Result) :
         i < j => Result[i].distanceToDriver <= Result[j].distanceToDriver

\* two offers came back in the opposite order of their candidates, the nearer
\* one strictly nearer
C7_Witness ==
  /\ Returned
  /\ Len(Result) = 2
  /\ Len(req.vehicles) = 2
  /\ Result[1].vehicle = req.vehicles[2]
  /\ Result[1].distanceToDriver < Result[2].distanceToDriver

RatedOnly(rs) == SelectSeq(rs, LAMBDA r : r.rate # <<>>)

RECURSIVE SumOfRated(_, _)
SumOfRated(rs, n) == IF n = 0 THEN 0 ELSE SumOfRated(rs, n - 1) + rs[n].rate[1]

\* the mean of the ratings present, 0 when there is none
MeanOfRated(rs) ==
  LET rated == RatedOnly(rs)
  IN  IF Len(rated) = 0 THEN Num(0)
      ELSE [nan |-> FALSE, num |-> SumOfRated(rated, Len(rated)), den |-> Len(rated)]

C9_PriceFormula ==
  Returned =>
    \A i \in 1..Len(Result) :
      Result[i].price
        = req.distanceToDestination * PricePerKM(Result[i].vehicle.uuid)
            + StartPrice(Result[i].vehicle.uuid)

\* an offer was priced for a ride of non-zero length with a start price
C9_Witness ==
  /\ Returned
  /\ req.distanceToDestination > 0
  /\ \E i \in 1..Len(Result) :
       /\ Result[i].vehicle.startPrice > 0
       /\ Result[i].price > Result[i].vehicle.startPrice

(***************************************************************************)
(* Claims about the registry under interleaved calls                       *)
(***************************************************************************)
Ended(k, op) == calls[k].op = op /\ calls[k].pc = "done"

\* C3: once book(v) has completed and until finishRide(v) is called, v is
\* never offered by findClosestVehicles run over the result of a
\* getAllVehicles() call made in that time, under any interleaving of calls.
C3_NoOfferWhileBooked ==
  \A k \in 1..Len(calls) :
    calls[k].op = "findClosestVehicles" =>
      \A i \in 1..Len(calls[k].offers) :
        calls[k].offers[i].vehicle.uuid \notin calls[k].fresh

\* the getAllVehicles calls that fetched from storage: they ran concurrently
\* while the cache was unloaded
Fetched(cs) ==
  {k \in 1..Len(cs) : cs[k].op = "getAllVehicles" /\ cs[k].pc = "done"
                        /\ ~cs[k].fromCache}

\* C4: when getAllVehicles() calls run concurrently while the cache is
\* unloaded, then as the last of them returns the cache holds no vehicle
\* twice, the callers have received the same fleet, and that fleet is the
\* cached set.
C4_ConcurrentLoadsAgree ==
  [][ \A i \in 1..Len(calls) :
        ( /\ calls[i].op = "getAllVehicles"
          /\ calls[i].pc = "fill"
          /\ calls'[i].pc = "done"
          /\ \A j \in 1..Len(calls') :
               calls'[j].op = "getAllVehicles" => calls'[j].pc = "done" )
        => /\ DistinctUuids(CacheGetAll')
           /\ \A j \in Fetched(calls') :
                /\ calls'[j].result = calls'[i].result
                /\ calls'[j].result = CacheGetAll' ]_vars

\* C5: isEmpty() is true before the first load and false after it, an empty
\* load included; once one getAllVehicles() call has completed, every later
\* getAllVehicles() call returns the cached set at once and no storage fetch
\* is made for it.
C5_FillOnce ==
  [][ /\ (~cacheLoaded /\ cacheLoaded') =>
           /\ CacheIsEmpty /\ ~CacheIsEmpty'
           /\ \E i \in 1..Len(calls) :
                calls[i].pc = "fill" /\ calls'[i].pc = "done"
      /\ ( /\ filled
           /\ Len(calls') = Len(calls) + 1
           /\ calls'[Len(calls')].op = "getAllVehicles" )
         => /\ ~CacheIsEmpty
            /\ calls'[Len(calls')].pc = "done"
            /\ calls'[Len(calls')].status = "ok"
            /\ calls'[Len(calls')].fromCache
            /\ calls'[Len(calls')].result = CacheGetAll
            /\ fetches' = fetches
            /\ storage' = storage ]_vars

\* the fleet loaded from storage was empty, and a later call was answered
\* from the cache: one fetch in all
C5_Witness ==
  \E i, j \in 1..Len(calls) :
    /\ i < j
    /\ Ended(i, "getAllVehicles") /\ ~calls[i].fromCache /\ calls[i].result = <<>>
    /\ Ended(j, "getAllVehicles") /\ calls[j].fromCache /\ calls[j].result = <<>>
    /\ fetches = 1
    /\ \E k \in 1..Len(calls) : Ended(k, "book") \/ Ended(k, "getVehicle")

\* C6: with the cache loaded, after book(v) a subsequent getVehicle(v.uuid)
\* returns a record with booked = true, read from the cache.  Stated of a
\* getVehicle call made with the cache loaded, after a book of the vehicle
\* completed and with no finishRide of it called since, every book of the
\* vehicle having been called with the cache loaded.
C6_ReadAfterBook ==
  \A k \in 1..Len(calls) :
    ( /\ Ended(k, "getVehicle")
      /\ calls[k].uuid \in calls[k].fresh
      /\ \A i \in 1..(k - 1) :
           (calls[i].op = "book" /\ calls[i].uuid = calls[k].uuid)
             => calls[i].fromCache )
    => /\ calls[k].fromCache
       /\ calls[k].result # <<>>
       /\ calls[k].result[1].booked

\* the record book and finishRide mean to write
Intended(c) ==
  IF c.op = "book"
  THEN [c.input[1] EXCEPT !.booked = TRUE]
  ELSE [c.input[1] EXCEPT !.latitude = c.loc[1].latitude,
                          !.longitude = c.loc[1].longitude,
                          !.booked = FALSE]

\* C10: book and finishRide put the intended new state in the cache before
\* they issue the storage update; when that update fails the call ends in an
\* error for the caller, issues no other update, and leaves the cache (and
\* the storage) as they are.
C10_FailurePropagates ==
  [][ /\ ( /\ Len(calls') = Len(calls) + 1
           /\ calls'[Len(calls')].op \in {"book", "finishRide"} )
         => LET c == calls'[Len(calls')]
            IN  /\ c.pc = "update"
                /\ c.written = <<Intended(c)>>
                /\ cacheEntries'[c.uuid] = c.written
      /\ \A i \in 1..Len(calls) :
           (calls[i].pc = "update" /\ calls'[i].ack = "rejected")
             => /\ calls'[i].pc = "done"
                /\ calls'[i].status = "error"
                /\ calls' = [calls EXCEPT ![i] = calls'[i]]
                /\ cacheEntries' = cacheEntries
                /\ cacheLoaded' = cacheLoaded
                /\ storage' = storage ]_vars

\* a book ended in an error: the cache holds the vehicle as booked, the
\* storage does not
C10_Witness ==
  \E i \in 1..Len(calls) :
    /\ Ended(i, "book")
    /\ calls[i].status = "error"
    /\ cacheEntries[calls[i].uuid] = calls[i].written
    /\ calls[i].written[1].booked
    /\ storage[calls[i].uuid] # <<>>
    /\ ~storage[calls[i].uuid][1].booked

\* the vehicle is at position p and free in record r (<<>>: no record)
ParkedAt(r, uuid, p) ==
  /\ r # <<>>
  /\ r[1].uuid = uuid
  /\ r[1].latitude = p.latitude
  /\ r[1].longitude = p.longitude
  /\ ~r[1].booked

\* C11: finishRide(v, p) puts v at p with booked = false in the cache (before
\* its await) and, when its update is acknowledged, in the storage; the call
\* changes no other vehicle's cache entry or storage record.
C11_FinishRideEffect ==
  [][ /\ ( /\ Len(calls') = Len(calls) + 1
           /\ calls'[Len(calls')].op = "finishRide" )
         => LET c == calls'[Len(calls')]
            IN  /\ ParkedAt(cacheEntries'[c.uuid], c.uuid, c.loc[1])
                /\ \A w \in Uuids \ {c.uuid} : cacheEntries'[w] = cacheEntries[w]
                /\ cacheLoaded' = cacheLoaded
                /\ storage' = storage
      /\ \A i \in 1..Len(calls) :
           ( /\ calls[i].op = "finishRide"
             /\ calls[i].pc = "update"
             /\ calls'[i].pc = "done"
             /\ calls'[i].status = "ok" )
           => /\ ParkedAt(storage'[calls[i].uuid], calls[i].uuid, calls[i].loc[1])
              /\ \A w \in Uuids \ {calls[i].uuid} : storage'[w] = storage[w]
              /\ cacheEntries' = cacheEntries
              /\ cacheLoaded' = cacheLoaded ]_vars

\* a ride of a booked vehicle was finished in a fleet of two: the vehicle is
\* parked at the new location in the cache and in the storage, and the other
\* vehicle is where it was
C11_Witness ==
  \E i \in 1..Len(calls) :
    /\ Ended(i, "finishRide")
    /\ calls[i].status = "ok"
    /\ calls[i].input[1].booked
    /\ calls[i].input[1].latitude # calls[i].loc[1].latitude
    /\ ParkedAt(cacheEntries[calls[i].uuid], calls[i].uuid, calls[i].loc[1])
    /\ ParkedAt(storage[calls[i].uuid], calls[i].uuid, calls[i].loc[1])
    /\ \E w \in Uuids \ {calls[i].uuid} :
         /\ storage[w] # <<>>
         /\ cacheLoaded
         /\ cacheEntries[w] = storage[w]
         /\ ~ParkedAt(storage[w], w, calls[i].loc[1])

\* C12: within a book or finishRide call the cache is updated before the
\* storage update is issued: the step that starts the call writes the cache
\* and leaves the storage alone, and the storage record of a vehicle changes
\* only in a later step, to the record of a call whose cache write is done.
C12_CacheBeforeStorage ==
  [][ /\ ( /\ Len(calls') = Len(calls) + 1
           /\ calls'[Len(calls')].op \in {"book", "finishRide"} )
         => LET c == calls'[Len(calls')]
            IN  /\ cacheEntries' = [cacheEntries EXCEPT ![c.uuid] = c.written]
                /\ c.pc = "update" /\ c.ack = ""
                /\ storage' = storage
      /\ \A u \in Uuids :
           storage'[u] # storage[u]
             => /\ Len(calls') = Len(calls)
                /\ \E i \in 1..Len(calls) :
                     /\ calls[i].op \in {"book", "finishRide"}
                     /\ calls[i].uuid = u
                     /\ calls[i].pc = "update"
                     /\ calls'[i].ack = "ok"
                     /\ storage'[u] = calls[i].written ]_vars

\* a book has written the cache and then the storage, and a finishRide of the
\* vehicle is at its await: the cache holds the vehicle as parked, the storage
\* still holds what the book wrote
C12_Witness ==
  \E i, j \in 1..Len(calls) :
    /\ Ended(i, "book") /\ calls[i].ack = "ok"
    /\ calls[j].op = "finishRide" /\ calls[j].pc = "update"
    /\ calls[j].uuid = calls[i].uuid
    /\ cacheLoaded
    /\ cacheEntries[calls[j].uuid] = calls[j].written
    /\ storage[calls[j].uuid] = calls[i].written
    /\ calls[i].written # calls[j].written

\* the cache is loaded and every call made has completed without a storage
\* failure
Quiescent ==
  /\ cacheLoaded
  /\ \A i \in 1..Len(calls) : calls[i].pc = "done" /\ calls[i].status = "ok"

\* same booked flag and position
SameState(a, b) ==
  /\ a.booked = b.booked
  /\ a.latitude = b.latitude
  /\ a.longitude = b.longitude

\* C13: in every state where the cache is loaded and all book, finishRide and
\* getAllVehicles calls have completed without storage failure, the cache
\* entry of each vehicle equals its storage record (same booked flag and
\* position), whatever the interleaving of the calls.
C13_QuiescentAgreement ==
  Quiescent =>
    \A u \in Uuids :
      storage[u] # <<>> =>
        /\ cacheEntries[u] # <<>>
        /\ SameState(cacheEntries[u][1], storage[u][1])

\* C14: getVehicle(uuid) called while the cache is unloaded reads the one
\* record from storage and leaves the cache as it is (no entry added, not
\* loaded, no fetch of the fleet); called while the cache is loaded it returns
\* the cache entry; when no record matches, in either case, it returns an
\* absent result (<<>>) and does not end in an error.
C14_GetVehicleReadsOnly ==
  [][ /\ ( /\ Len(calls') = Len(calls) + 1
           /\ calls'[Len(calls')].op = "getVehicle" )
         => LET c == calls'[Len(calls')]
            IN  /\ cacheEntries' = cacheEntries
                /\ cacheLoaded' = cacheLoaded
                /\ storage' = storage
                /\ fetches' = fetches
                /\ IF cacheLoaded
                   THEN /\ c.pc = "done" /\ c.status = "ok"
                        /\ c.result = cacheEntries[c.uuid]
                   ELSE c.pc = "findOne"
      /\ \A i \in 1..Len(calls) :
           ( /\ calls[i].op = "getVehicle"
             /\ calls[i].pc = "findOne"
             /\ calls'[i].pc = "done" )
           => /\ calls'[i].status = "ok"
              /\ calls'[i].result = storage[calls[i].uuid]
              /\ Len(calls'[i].result) <= 1
              /\ cacheEntries' = cacheEntries
              /\ cacheLoaded' = cacheLoaded
              /\ storage' = storage
              /\ fetches' = fetches ]_vars

\* with the cache unloaded one getVehicle returned the record of a vehicle
\* and another returned nothing for an unknown uuid, neither leaving an entry
\* in the cache nor causing a fetch of the fleet; after the load a third
\* returned nothing for the unknown uuid
C14_Witness ==
  \E i, j, k \in 1..Len(calls) :
    /\ Ended(i, "getVehicle") /\ ~calls[i].fromCache
    /\ calls[i].result # <<>> /\ calls[i].result[1].uuid = calls[i].uuid
    /\ Ended(j, "getVehicle") /\ ~calls[j].fromCache
    /\ calls[j].result = <<>> /\ calls[j].status = "ok"
    /\ Ended(k, "getVehicle") /\ calls[k].fromCache
    /\ calls[k].result = <<>> /\ calls[k].status = "ok"
    /\ i < k /\ j < k
    /\ fetches = 1
    /\ cacheEntries[calls[j].uuid] = <<>>

\* the uuids of the records of a sequence of vehicles
UuidsOf(vehicles) == {vehicles[i].uuid : i \in 1..Len(vehicles)}

\* C15: every completed getAllVehicles() returns exactly one record for each
\* vehicle in storage, whatever book, finishRide and getAllVehicles calls
\* were made before, book or finishRide calls made before the first load
\* included: never the vehicles written through set alone.
C15_FullFleet ==
  \A k \in 1..Len(calls) :
    Ended(k, "getAllVehicles") =>
      /\ DistinctUuids(calls[k].result)
      /\ UuidsOf(calls[k].result) = {u \in Uuids : storage[u] # <<>>}

\* a vehicle was booked while the cache was unloaded, and a getAllVehicles
\* call made after that returned the fleet of two, the vehicle that was never
\* written through set included
C15_Witness ==
  \E i, k \in 1..Len(calls) :
    /\ i < k
    /\ calls[i].op = "book" /\ ~calls[i].fromCache
    /\ Ended(k, "getAllVehicles")
    /\ Len(calls[k].result) = 2
    /\ \E n \in 1..2 :
         /\ calls[k].result[n].uuid # calls[i].uuid
         /\ \A j \in 1..Len(calls) :
              calls[j].op \in {"book", "finishRide"}
                => calls[j].uuid # calls[k].result[n].uuid

\* C18: findClosestVehicles has no effect on shared state: the array of
\* candidates it was given keeps its order and contents (as does every array
\* a call returned), and no vehicle record, in the cache or in the storage,
\* and no review changes.
C18_MatchingReadsOnly ==
  [][ ( /\ Len(calls') = Len(calls) + 1
        /\ calls'[Len(calls')].op = "findClosestVehicles" )
      => /\ \A j \in 1..Len(calls) : calls'[j] = calls[j]
         /\ \E j \in 1..Len(calls) :
              /\ Ended(j, "getAllVehicles")
              /\ calls'[Len(calls')].vehicles = calls[j].result
              /\ calls'[j].result = calls[j].result
         /\ cacheEntries' = cacheEntries
         /\ cacheLoaded' = cacheLoaded
         /\ CacheGetAll' = CacheGetAll
         /\ storage' = storage
         /\ reviews' = reviews ]_vars

\* findClosestVehicles was given the cached fleet, v1 before v2, and offered
\* v2 before v1: the array it was given and the cache are in the order they
\* were
C18_Witness ==
  \E j, k \in 1..Len(calls) :
    /\ Ended(j, "getAllVehicles") /\ calls[j].fromCache
    /\ Ended(k, "findClosestVehicles")
    /\ calls[k].vehicles = calls[j].result
    /\ Len(calls[k].vehicles) = 2
    /\ Len(calls[k].offers) = 2
    /\ calls[k].offers[1].vehicle = calls[k].vehicles[2]
    /\ calls[k].offers[2].vehicle = calls[k].vehicles[1]
    /\ CacheGetAll = calls[j].result

(***************************************************************************)
(* Claims about the reviews (SpecReview)                                   *)
(***************************************************************************)
\* rate and comment are present only when completed is true
RatedOnlyWhenCompleted(r) == (r.rate # <<>> \/ r.comment # <<>>) => r.completed

\* C16: in every review record rate and comment are present only when
\* completed is true; insertReviewRequest creates a record with completed =
\* false and neither rate nor comment; and leaveReview mutates a review at
\* most once: a review that is completed is not changed by a later
\* leaveReview.
C16_ReviewedOnce ==
  [][ /\ \A i \in 1..Len(reviews') : RatedOnlyWhenCompleted(reviews'[i])
      /\ Len(reviews') = Len(reviews) + 1
           => LET r == reviews'[Len(reviews')]
              IN  ~r.completed /\ r.rate = <<>> /\ r.comment = <<>>
      /\ \A i \in 1..Len(reviews) :
           reviews[i].completed => reviews'[i] = reviews[i] ]_vars

\* C17: getAllReviews(email) partitions the reviews of that email: each of
\* them is in exactly one of the two lists returned, in completed iff its
\* completed flag is true and in pending otherwise, and no review of another
\* email (and nothing that is not a stored review) is in either list.
C17_Partition ==
  listing # <<>> =>
    LET l == listing[1]
        both == l.completed \o l.pending
    IN  /\ \A i \in 1..Len(reviews) :
             IF reviews[i].email = l.email
             THEN /\ Cardinality({n \in 1..Len(both) :
                                    both[n].uuid = reviews[i].uuid}) = 1
                  /\ reviews[i].completed
                       <=> \E n \in 1..Len(l.completed) :
                             l.completed[n].uuid = reviews[i].uuid
             ELSE \A n \in 1..Len(both) : both[n].uuid # reviews[i].uuid
        /\ \A n \in 1..Len(both) :
             \E i \in 1..Len(reviews) : reviews[i].uuid = both[n].uuid

\* a rider with a completed and a pending review got one in each list, while
\* the store holds a review of another rider
C17_Witness ==
  /\ listing # <<>>
  /\ Len(listing[1].completed) >= 1
  /\ Len(listing[1].pending) >= 1
  /\ \E i \in 1..Len(reviews) : reviews[i].email # listing[1].email

====
